---- MODULE Spec2Model ----
(***************************************************************************)
(* Model of _repo_xml_generator.py: the Kodi repository generator that     *)
(* discovers addon directories under repo/, zips each one under            *)
(* repo/zips/<id>/, writes an md5 sibling, aggregates the addon.xml        *)
(* descriptors into repo/zips/addons.xml and copies the repository addon's *)
(* zip to the project root.                                                *)
(*                                                                         *)
(* Representation.                                                         *)
(*  - A str whose characters the code or a library inspects is a sequence  *)
(*    of one-character strings: the names inside an addon (startswith,     *)
(*    Path.suffix, lower), the id and version of a descriptor (they become *)
(*    path components, split at "/"), the encoding name of an XML          *)
(*    declaration, a run of white space.                                   *)
(*  - A text file is a sequence of tokens (records with a field t): the    *)
(*    lexical units the regular expression of read_addon_xml and the XML   *)
(*    parser of parse_addon_meta tell apart.                               *)
(*    The tokens stand for UTF-8 bytes, unless the file starts with the    *)
(*    token BOM16 (the bytes FF FE): then they stand for UTF-16 bytes.     *)
(*  - An addon directory is a set of entries [path, kind, data]; kind is   *)
(*    "file", "dir", or the kind of a dangling symbolic link, which        *)
(*    os.walk lists among the files, for which exists() and is_file() are  *)
(*    false and which zf.write cannot read: "broken" when its target lies  *)
(*    in a directory that does not exist (writing through it raises        *)
(*    FileNotFoundError), "dangling" when only the target is missing, in a *)
(*    directory outside the addon (writing through it creates the target). *)
(*  - ZIPS_DIR and SCRIPT_DIR are file systems [files, dirs]: a function   *)
(*    from paths to contents and the set of the directories. A path is the *)
(*    sequence of its components, relative to the directory. An id or a    *)
(*    version has no component "..", and an id does not start with "/":    *)
(*    the paths made of them stay below ZIPS_DIR and SCRIPT_DIR.           *)
(*  - A value that may be None is None or Some(v): a string that reads     *)
(*    "None" is a value like any other.                                    *)
(*  - A zip archive is the set of its members (arcname and data): member   *)
(*    order and time stamps are not modelled.                              *)
(*  - REPO_DIR.iterdir() order is the order of the sequence listing: it    *)
(*    is a property of the directory, stable while nobody edits it.        *)
(***************************************************************************)
EXTENDS Integers, Sequences, FiniteSets, TLC

VARIABLES
    repo_dir,      \* what REPO_DIR is: "missing", a "file" or a "dir"
    listing,       \* children of REPO_DIR in iterdir() order (input trees); what
                   \* ZIPS_DIR holds is kept in zips
    zips,          \* the file system below ZIPS_DIR
    top,           \* the file system below SCRIPT_DIR, REPO_DIR left out
    pc,            \* position of main(): idle, package, aggregate, publish, done, failed
    addons,        \* main: list of discovered addon directories (indexes into listing)
    idx,           \* main: position of the for loop over addons
    repo_zip,      \* main: path of the repository addon's zip, or None
    repo_version,  \* main: its version, or None
    status,        \* how the run ended: running, ok, or the exception that ended it
                   \* (OSError stands for its subclasses FileNotFoundError,
                   \* FileExistsError, IsADirectoryError, NotADirectoryError)
    log,           \* log() lines of the current run that matter (warnings, copy)
    runs,          \* number of runs started
    start,         \* the file system when the current run started
    last,          \* the file system as the latest run left it, if it succeeded
    prev           \* the same for the run before the current one

vars == <<repo_dir, listing, zips, top, pc, addons, idx, repo_zip, repo_version,
          status, log, runs, start, last, prev>>

\* ------------------------------------------------------------------ bounds
MaxAddons == 3
MaxRuns == 2

\* ------------------------------------------------------------------ names
\* None, and a value that is not None
None == <<>>
Some(v) == <<v>>

N_addon_xml == <<"a", "d", "d", "o", "n", ".", "x", "m", "l">>
N_addons_xml == <<"a", "d", "d", "o", "n", "s", ".", "x", "m", "l">>
N_icon_png == <<"i", "c", "o", "n", ".", "p", "n", "g">>
N_main_py == <<"m", "a", "i", "n", ".", "p", "y">>
N_other_py == <<"o", ".", "p", "y">>
N_Thumbs_db == <<"T", "h", "u", "m", "b", "s", ".", "d", "b">>
N_DS_Store == <<".", "D", "S", "_", "S", "t", "o", "r", "e">>
N_dot_env == <<".", "e", "n", "v">>
N_m_PYC == <<"m", ".", "P", "Y", "C">>
N_a_b_swp == <<"a", ".", "b", ".", "s", "w", "p">>
N_trail == <<"n", "o", "t", "e", ".">>
N_git == <<".", "g", "i", "t">>
N_github == <<".", "g", "i", "t", "h", "u", "b">>
N_pycache == <<"_", "_", "p", "y", "c", "a", "c", "h", "e", "_", "_">>
N_idea == <<".", "i", "d", "e", "a">>
N_vscode == <<".", "v", "s", "c", "o", "d", "e">>
N_zips == <<"z", "i", "p", "s">>
N_lib == <<"l", "i", "b">>
N_data_db == <<"d", "a", "t", "a", ".", "d", "b">>
N_lnk == <<"l", "n", "k">>

EXCLUDE_DIRS == {N_git, N_github, N_pycache, N_idea, N_vscode, N_zips}
EXCLUDE_FILES == {N_Thumbs_db, N_DS_Store}
EXCLUDE_EXTS == {<<".", "p", "y", "c">>, <<".", "p", "y", "o">>, <<".", "p", "y", "d">>,
                 <<".", "d", "b">>, <<".", "s", "w", "p">>}

repo_id == <<"r", "e", "p", "o", "s", "i", "t", "o", "r", "y", ".", "c", "e", "n", "t", "u", "l", "u", "s">>

\* ------------------------------------------------------------------ str helpers
Upper == <<"A", "B", "C", "D", "E", "F", "G", "H", "I", "J", "K", "L", "M",
           "N", "O", "P", "Q", "R", "S", "T", "U", "V", "W", "X", "Y", "Z">>
Lower == <<"a", "b", "c", "d", "e", "f", "g", "h", "i", "j", "k", "l", "m",
           "n", "o", "p", "q", "r", "s", "t", "u", "v", "w", "x", "y", "z">>
Digits == {"0", "1", "2", "3", "4", "5", "6", "7", "8", "9"}

IsLetter(c) == \E i \in 1..Len(Upper) : Upper[i] = c \/ Lower[i] = c

\* str.lower() on one character
LowerChar(c) ==
    IF \E i \in 1..Len(Upper) : Upper[i] = c
    THEN Lower[CHOOSE i \in 1..Len(Upper) : Upper[i] = c]
    ELSE c

\* str.lower()
lower(s) == [i \in 1..Len(s) |-> LowerChar(s[i])]

\* str.startswith(c) for a one-character prefix
startswith(s, c) == Len(s) >= 1 /\ s[1] = c

\* str.rfind('.'): the last index (from 1) of a dot, 0 when there is none
rfind_dot(s) ==
    IF \E i \in 1..Len(s) : s[i] = "."
    THEN CHOOSE i \in 1..Len(s) : s[i] = "." /\ \A j \in (i + 1)..Len(s) : s[j] # "."
    ELSE 0

\* PurePath.suffix: the text from the last dot, unless the dot is the first
\* or the last character of the name
suffix(name) ==
    LET i == rfind_dot(name)
    IN IF 1 < i /\ i < Len(name) THEN SubSeq(name, i, Len(name)) ELSE <<>>

\* PurePath.with_suffix on a name: the suffix of the name is replaced
with_suffix(name, new) == SubSeq(name, 1, Len(name) - Len(suffix(name))) \o new

\* PurePath.name of a relative path
name_of(path) == path[Len(path)]

\* PurePath.parent of a relative path
parent_of(path) == SubSeq(path, 1, Len(path) - 1)

\* str.split('/')
RECURSIVE split(_)
split(s) ==
    IF \E i \in 1..Len(s) : s[i] = "/"
    THEN LET i == CHOOSE k \in 1..Len(s) : s[k] = "/" /\ \A j \in 1..(k - 1) : s[j] # "/"
         IN <<SubSeq(s, 1, i - 1)>> \o split(SubSeq(s, i + 1, Len(s)))
    ELSE <<s>>

\* PurePath(s).parts of a relative path: empty components and "." are dropped
parts(s) == SelectSeq(split(s), LAMBDA c : c # <<>> /\ c # <<".">>)

\* ------------------------------------------------------------------ text tokens
BOM == [t |-> "bom"]                        \* U+FEFF, as read with encoding='utf-8'
BOM16 == [t |-> "bom16"]                    \* the bytes FF FE that open a UTF-16 file
WS(txt) == [t |-> "ws", text |-> txt]       \* a run of white space characters
NL == WS(<<"\n">>)
XmlDecl(enc) == [t |-> "xmldecl", encoding |-> enc]   \* <?xml version="1.0" encoding=...?>
XmlPI == [t |-> "xmlpi"]                    \* <?xml-stylesheet ...?>
Comment == [t |-> "comment"]                \* <!-- ... -->
Elem(attrs) == [t |-> "elem", attrs |-> attrs]   \* the root element, children included
Raw(b) == [t |-> "raw", v |-> b]            \* bytes that are no XML
Tag(n) == [t |-> "tag", name |-> n]         \* <addons> and </addons> of the manifest

\* the white space of XML (production S), and that of str.strip() and of \s,
\* which is wider: the form feed stands for what Python adds
XmlSpace == {" ", "\t", "\r", "\n"}
PySpace == XmlSpace \cup {"\f"}

IsSpace(tok) == tok.t = "ws" /\ \A i \in 1..Len(tok.text) : tok.text[i] \in PySpace

\* str.strip(): leading and trailing white space removed (U+FEFF is none)
RECURSIVE lstrip(_)
lstrip(s) == IF s # <<>> /\ IsSpace(Head(s)) THEN lstrip(Tail(s)) ELSE s

RECURSIVE rstrip(_)
rstrip(s) ==
    IF s # <<>> /\ IsSpace(s[Len(s)]) THEN rstrip(SubSeq(s, 1, Len(s) - 1)) ELSE s

strip(s) == rstrip(lstrip(s))

\* the token starts with the characters <?xml and ends at its first >
MatchesXmlOpen(tok) == tok.t \in {"xmldecl", "xmlpi"}

\* re.sub(r'^\s*<\?xml[^>]*>\s*', '', txt): one match, at the start only
sub_xml_decl(txt) ==
    LET body == lstrip(txt)
    IN IF body # <<>> /\ MatchesXmlOpen(Head(body)) THEN lstrip(Tail(body)) ELSE txt

\* ------------------------------------------------------------------ addon trees
File(path, data) == [path |-> path, kind |-> "file", data |-> data]
Dir(path) == [path |-> path, kind |-> "dir", data |-> <<>>]
Broken(path) == [path |-> path, kind |-> "broken", data |-> <<>>]
Dangling(path) == [path |-> path, kind |-> "dangling", data |-> <<>>]

\* the entry of a tree at a path, when there is one
HasEntry(tree, path) == \E e \in tree : e.path = path
Entry(tree, path) == CHOOSE e \in tree : e.path = path

\* Path.exists() and Path.is_file(): both follow symbolic links
exists(tree, path) == HasEntry(tree, path) /\ Entry(tree, path).kind \in {"file", "dir"}
is_file(tree, path) == HasEntry(tree, path) /\ Entry(tree, path).kind = "file"

\* os.scandir of one directory of the tree
Children(tree, d) ==
    {e \in tree : Len(e.path) = Len(d) + 1 /\ SubSeq(e.path, 1, Len(d)) = d}

\* a file is created or rewritten at a path (through the link, if it is one)
WriteFile(tree, path, data) ==
    {e \in tree : e.path # path} \cup {File(path, data)}

\* ------------------------------------------------------------------ read_addon_xml
\* f.read() of a file opened with encoding='utf-8' raises UnicodeDecodeError:
\* the byte FF is no UTF-8
read_addon_xml_raises(tree) ==
    LET txt == Entry(tree, <<N_addon_xml>>).data
    IN \E i \in 1..Len(txt) : txt[i] = BOM16

\* open('r') reads with universal newlines: "\r\n" and "\r" become "\n"
RECURSIVE translate_newlines(_)
translate_newlines(s) ==
    IF s = <<>> THEN <<>>
    ELSE IF Head(s) = "\r"
    THEN <<"\n">> \o translate_newlines(IF Len(s) >= 2 /\ s[2] = "\n"
                                       THEN SubSeq(s, 3, Len(s)) ELSE Tail(s))
    ELSE <<Head(s)>> \o translate_newlines(Tail(s))

\* the text ends with a carriage return
EndsWithCR(tok) == tok.t = "ws" /\ tok.text # <<>> /\ tok.text[Len(tok.text)] = "\r"

\* f.read(): the tokens of the file as text mode hands them over; a "\n"
\* that follows the "\r" of the token before belongs to that newline
f_read(txt) ==
    [i \in 1..Len(txt) |->
        IF txt[i].t # "ws" THEN txt[i]
        ELSE IF i > 1 /\ EndsWithCR(txt[i - 1]) /\ txt[i].text # <<>>
                /\ Head(txt[i].text) = "\n"
        THEN WS(translate_newlines(Tail(txt[i].text)))
        ELSE WS(translate_newlines(txt[i].text))]

\* read_addon_xml when the file can be decoded
read_addon_xml(tree) ==
    LET txt == strip(f_read(Entry(tree, <<N_addon_xml>>).data))
    IN sub_xml_decl(txt)

\* ------------------------------------------------------------------ parse_addon_meta
\* EncName of the XML grammar: a letter, then letters, digits, ".", "_", "-"
ValidEncName(enc) ==
    /\ enc # <<>>
    /\ IsLetter(enc[1])
    /\ \A i \in 2..Len(enc) :
        IsLetter(enc[i]) \/ enc[i] \in Digits \/ enc[i] \in {".", "_", "-"}

\* The encodings expat decodes itself, whatever the case of the letters.
ExpatEightBit == {<<"u", "t", "f", "-", "8">>, <<"u", "s", "-", "a", "s", "c", "i", "i">>,
                  <<"i", "s", "o", "-", "8", "8", "5", "9", "-", "1">>}
ExpatUtf16 == {<<"u", "t", "f", "-", "1", "6">>, <<"u", "t", "f", "-", "1", "6", "l", "e">>}
ExpatUtf16BE == {<<"u", "t", "f", "-", "1", "6", "b", "e">>}

\* Any other name is handed to Python's codecs, which look it up in lower
\* case, every run of "-" and "_" taken for one "_", those at the ends dropped.
RECURSIVE dropsep(_)
dropsep(s) == IF s # <<>> /\ Head(s) \in {"-", "_"} THEN dropsep(Tail(s)) ELSE s

RECURSIVE collapse(_)
collapse(s) ==
    IF s = <<>> THEN <<>>
    ELSE IF Head(s) \in {"-", "_"}
    THEN (IF dropsep(s) = <<>> THEN <<>> ELSE <<"_">> \o collapse(dropsep(s)))
    ELSE <<Head(s)>> \o collapse(Tail(s))

normalize_encoding(enc) == collapse(dropsep(lower(enc)))

\* norm_encoding.replace('.', '_')
undot(s) == [i \in 1..Len(s) |-> IF s[i] = "." THEN "_" ELSE s[i]]

\* The registry of Python 3.11 on Linux: the aliases of encodings.aliases
\* and the modules of the package encodings, by what pyexpat answers when an
\* XML declaration names them. The names a declaration cannot hold (they
\* start with a digit) and the codecs that are no text encoding (LookupError)
\* are left out.
\* Codecs of one byte per character that keep ASCII: pyexpat accepts them.
CodecsEightBit ==
    {<<"a", "n", "s", "i", "_", "x", "3", ".", "4", "_", "1", "9", "6", "8">>,
     <<"a", "n", "s", "i", "_", "x", "3", ".", "4", "_", "1", "9", "8", "6">>,
     <<"a", "n", "s", "i", "_", "x", "3", "_", "4", "_", "1", "9", "6", "8">>,
     <<"a", "r", "a", "b", "i", "c">>, <<"a", "s", "c", "i", "i">>,
     <<"a", "s", "m", "o", "_", "7", "0", "8">>, <<"c", "h", "a", "r", "m", "a", "p">>,
     <<"c", "p", "1", "0", "0", "6">>, <<"c", "p", "1", "0", "5", "1">>,
     <<"c", "p", "1", "1", "2", "5">>, <<"c", "p", "1", "2", "5", "0">>,
     <<"c", "p", "1", "2", "5", "1">>, <<"c", "p", "1", "2", "5", "2">>,
     <<"c", "p", "1", "2", "5", "3">>, <<"c", "p", "1", "2", "5", "4">>,
     <<"c", "p", "1", "2", "5", "5">>, <<"c", "p", "1", "2", "5", "6">>,
     <<"c", "p", "1", "2", "5", "7">>, <<"c", "p", "1", "2", "5", "8">>,
     <<"c", "p", "1", "5", "4">>, <<"c", "p", "3", "6", "7">>, <<"c", "p", "4", "3", "7">>,
     <<"c", "p", "6", "5", "0", "0", "1">>, <<"c", "p", "7", "2", "0">>,
     <<"c", "p", "7", "3", "7">>, <<"c", "p", "7", "7", "5">>, <<"c", "p", "8", "1", "9">>,
     <<"c", "p", "8", "5", "0">>, <<"c", "p", "8", "5", "2">>, <<"c", "p", "8", "5", "5">>,
     <<"c", "p", "8", "5", "6">>, <<"c", "p", "8", "5", "7">>, <<"c", "p", "8", "5", "8">>,
     <<"c", "p", "8", "6", "0">>, <<"c", "p", "8", "6", "1">>, <<"c", "p", "8", "6", "2">>,
     <<"c", "p", "8", "6", "3">>, <<"c", "p", "8", "6", "5">>, <<"c", "p", "8", "6", "6">>,
     <<"c", "p", "8", "6", "6", "u">>, <<"c", "p", "8", "6", "9">>,
     <<"c", "p", "8", "7", "4">>, <<"c", "p", "_", "g", "r">>, <<"c", "p", "_", "i", "s">>,
     <<"c", "s", "a", "s", "c", "i", "i">>, <<"c", "s", "i", "b", "m", "8", "5", "5">>,
     <<"c", "s", "i", "b", "m", "8", "5", "7">>, <<"c", "s", "i", "b", "m", "8", "5", "8">>,
     <<"c", "s", "i", "b", "m", "8", "6", "0">>, <<"c", "s", "i", "b", "m", "8", "6", "1">>,
     <<"c", "s", "i", "b", "m", "8", "6", "3">>, <<"c", "s", "i", "b", "m", "8", "6", "5">>,
     <<"c", "s", "i", "b", "m", "8", "6", "6">>, <<"c", "s", "i", "b", "m", "8", "6", "9">>,
     <<"c", "s", "i", "s", "o", "2", "0", "2", "2", "j", "p">>,
     <<"c", "s", "i", "s", "o", "l", "a", "t", "i", "n", "1">>,
     <<"c", "s", "i", "s", "o", "l", "a", "t", "i", "n", "2">>,
     <<"c", "s", "i", "s", "o", "l", "a", "t", "i", "n", "3">>,
     <<"c", "s", "i", "s", "o", "l", "a", "t", "i", "n", "4">>,
     <<"c", "s", "i", "s", "o", "l", "a", "t", "i", "n", "5">>,
     <<"c", "s", "i", "s", "o", "l", "a", "t", "i", "n", "6">>,
     <<"c", "s", "i", "s", "o", "l", "a", "t", "i", "n", "a", "r", "a", "b", "i", "c">>,
     <<"c", "s", "i", "s", "o", "l", "a", "t", "i", "n", "c", "y", "r", "i", "l", "l", "i", "c">>,
     <<"c", "s", "i", "s", "o", "l", "a", "t", "i", "n", "g", "r", "e", "e", "k">>,
     <<"c", "s", "i", "s", "o", "l", "a", "t", "i", "n", "h", "e", "b", "r", "e", "w">>,
     <<"c", "s", "k", "o", "i", "8", "r">>,
     <<"c", "s", "p", "c", "7", "7", "5", "b", "a", "l", "t", "i", "c">>,
     <<"c", "s", "p", "c", "8", "5", "0", "m", "u", "l", "t", "i", "l", "i", "n", "g", "u", "a", "l">>,
     <<"c", "s", "p", "c", "8", "6", "2", "l", "a", "t", "i", "n", "h", "e", "b", "r", "e", "w">>,
     <<"c", "s", "p", "c", "8", "c", "o", "d", "e", "p", "a", "g", "e", "4", "3", "7">>,
     <<"c", "s", "p", "c", "p", "8", "5", "2">>,
     <<"c", "s", "p", "t", "c", "p", "1", "5", "4">>,
     <<"c", "y", "r", "i", "l", "l", "i", "c">>,
     <<"c", "y", "r", "i", "l", "l", "i", "c", "_", "a", "s", "i", "a", "n">>,
     <<"e", "c", "m", "a", "_", "1", "1", "4">>, <<"e", "c", "m", "a", "_", "1", "1", "8">>,
     <<"e", "l", "o", "t", "_", "9", "2", "8">>, <<"g", "r", "e", "e", "k">>,
     <<"g", "r", "e", "e", "k", "8">>, <<"h", "e", "b", "r", "e", "w">>,
     <<"h", "p", "_", "r", "o", "m", "a", "n", "8">>, <<"h", "z">>,
     <<"h", "z", "_", "g", "b">>, <<"h", "z", "_", "g", "b", "_", "2", "3", "1", "2">>,
     <<"h", "z", "g", "b">>, <<"i", "b", "m", "1", "0", "5", "1">>,
     <<"i", "b", "m", "1", "1", "2", "5">>, <<"i", "b", "m", "3", "6", "7">>,
     <<"i", "b", "m", "4", "3", "7">>, <<"i", "b", "m", "7", "7", "5">>,
     <<"i", "b", "m", "8", "1", "9">>, <<"i", "b", "m", "8", "5", "0">>,
     <<"i", "b", "m", "8", "5", "2">>, <<"i", "b", "m", "8", "5", "5">>,
     <<"i", "b", "m", "8", "5", "7">>, <<"i", "b", "m", "8", "5", "8">>,
     <<"i", "b", "m", "8", "6", "0">>, <<"i", "b", "m", "8", "6", "1">>,
     <<"i", "b", "m", "8", "6", "2">>, <<"i", "b", "m", "8", "6", "3">>,
     <<"i", "b", "m", "8", "6", "5">>, <<"i", "b", "m", "8", "6", "6">>,
     <<"i", "b", "m", "8", "6", "9">>, <<"i", "s", "o", "2", "0", "2", "2", "_", "j", "p">>,
     <<"i", "s", "o", "2", "0", "2", "2", "_", "j", "p", "_", "1">>,
     <<"i", "s", "o", "2", "0", "2", "2", "_", "j", "p", "_", "2">>,
     <<"i", "s", "o", "2", "0", "2", "2", "_", "j", "p", "_", "2", "0", "0", "4">>,
     <<"i", "s", "o", "2", "0", "2", "2", "_", "j", "p", "_", "3">>,
     <<"i", "s", "o", "2", "0", "2", "2", "_", "j", "p", "_", "e", "x", "t">>,
     <<"i", "s", "o", "2", "0", "2", "2", "j", "p">>,
     <<"i", "s", "o", "2", "0", "2", "2", "j", "p", "_", "1">>,
     <<"i", "s", "o", "2", "0", "2", "2", "j", "p", "_", "2">>,
     <<"i", "s", "o", "2", "0", "2", "2", "j", "p", "_", "2", "0", "0", "4">>,
     <<"i", "s", "o", "2", "0", "2", "2", "j", "p", "_", "3">>,
     <<"i", "s", "o", "2", "0", "2", "2", "j", "p", "_", "e", "x", "t">>,
     <<"i", "s", "o", "6", "4", "6", "_", "u", "s">>, <<"i", "s", "o", "8", "8", "5", "9">>,
     <<"i", "s", "o", "8", "8", "5", "9", "_", "1">>,
     <<"i", "s", "o", "8", "8", "5", "9", "_", "1", "0">>,
     <<"i", "s", "o", "8", "8", "5", "9", "_", "1", "1">>,
     <<"i", "s", "o", "8", "8", "5", "9", "_", "1", "3">>,
     <<"i", "s", "o", "8", "8", "5", "9", "_", "1", "4">>,
     <<"i", "s", "o", "8", "8", "5", "9", "_", "1", "5">>,
     <<"i", "s", "o", "8", "8", "5", "9", "_", "1", "6">>,
     <<"i", "s", "o", "8", "8", "5", "9", "_", "2">>,
     <<"i", "s", "o", "8", "8", "5", "9", "_", "3">>,
     <<"i", "s", "o", "8", "8", "5", "9", "_", "4">>,
     <<"i", "s", "o", "8", "8", "5", "9", "_", "5">>,
     <<"i", "s", "o", "8", "8", "5", "9", "_", "6">>,
     <<"i", "s", "o", "8", "8", "5", "9", "_", "7">>,
     <<"i", "s", "o", "8", "8", "5", "9", "_", "8">>,
     <<"i", "s", "o", "8", "8", "5", "9", "_", "9">>,
     <<"i", "s", "o", "_", "2", "0", "2", "2", "_", "j", "p">>,
     <<"i", "s", "o", "_", "2", "0", "2", "2", "_", "j", "p", "_", "1">>,
     <<"i", "s", "o", "_", "2", "0", "2", "2", "_", "j", "p", "_", "2">>,
     <<"i", "s", "o", "_", "2", "0", "2", "2", "_", "j", "p", "_", "2", "0", "0", "4">>,
     <<"i", "s", "o", "_", "2", "0", "2", "2", "_", "j", "p", "_", "3">>,
     <<"i", "s", "o", "_", "2", "0", "2", "2", "_", "j", "p", "_", "e", "x", "t">>,
     <<"i", "s", "o", "_", "6", "4", "6", ".", "i", "r", "v", "_", "1", "9", "9", "1">>,
     <<"i", "s", "o", "_", "8", "8", "5", "9", "_", "1">>,
     <<"i", "s", "o", "_", "8", "8", "5", "9", "_", "1", "0">>,
     <<"i", "s", "o", "_", "8", "8", "5", "9", "_", "1", "0", "_", "1", "9", "9", "2">>,
     <<"i", "s", "o", "_", "8", "8", "5", "9", "_", "1", "1">>,
     <<"i", "s", "o", "_", "8", "8", "5", "9", "_", "1", "1", "_", "2", "0", "0", "1">>,
     <<"i", "s", "o", "_", "8", "8", "5", "9", "_", "1", "3">>,
     <<"i", "s", "o", "_", "8", "8", "5", "9", "_", "1", "4">>,
     <<"i", "s", "o", "_", "8", "8", "5", "9", "_", "1", "4", "_", "1", "9", "9", "8">>,
     <<"i", "s", "o", "_", "8", "8", "5", "9", "_", "1", "5">>,
     <<"i", "s", "o", "_", "8", "8", "5", "9", "_", "1", "6">>,
     <<"i", "s", "o", "_", "8", "8", "5", "9", "_", "1", "6", "_", "2", "0", "0", "1">>,
     <<"i", "s", "o", "_", "8", "8", "5", "9", "_", "1", "_", "1", "9", "8", "7">>,
     <<"i", "s", "o", "_", "8", "8", "5", "9", "_", "2">>,
     <<"i", "s", "o", "_", "8", "8", "5", "9", "_", "2", "_", "1", "9", "8", "7">>,
     <<"i", "s", "o", "_", "8", "8", "5", "9", "_", "3">>,
     <<"i", "s", "o", "_", "8", "8", "5", "9", "_", "3", "_", "1", "9", "8", "8">>,
     <<"i", "s", "o", "_", "8", "8", "5", "9", "_", "4">>,
     <<"i", "s", "o", "_", "8", "8", "5", "9", "_", "4", "_", "1", "9", "8", "8">>,
     <<"i", "s", "o", "_", "8", "8", "5", "9", "_", "5">>,
     <<"i", "s", "o", "_", "8", "8", "5", "9", "_", "5", "_", "1", "9", "8", "8">>,
     <<"i", "s", "o", "_", "8", "8", "5", "9", "_", "6">>,
     <<"i", "s", "o", "_", "8", "8", "5", "9", "_", "6", "_", "1", "9", "8", "7">>,
     <<"i", "s", "o", "_", "8", "8", "5", "9", "_", "7">>,
     <<"i", "s", "o", "_", "8", "8", "5", "9", "_", "7", "_", "1", "9", "8", "7">>,
     <<"i", "s", "o", "_", "8", "8", "5", "9", "_", "8">>,
     <<"i", "s", "o", "_", "8", "8", "5", "9", "_", "8", "_", "1", "9", "8", "8">>,
     <<"i", "s", "o", "_", "8", "8", "5", "9", "_", "9">>,
     <<"i", "s", "o", "_", "8", "8", "5", "9", "_", "9", "_", "1", "9", "8", "9">>,
     <<"i", "s", "o", "_", "c", "e", "l", "t", "i", "c">>,
     <<"i", "s", "o", "_", "i", "r", "_", "1", "0", "0">>,
     <<"i", "s", "o", "_", "i", "r", "_", "1", "0", "1">>,
     <<"i", "s", "o", "_", "i", "r", "_", "1", "0", "9">>,
     <<"i", "s", "o", "_", "i", "r", "_", "1", "1", "0">>,
     <<"i", "s", "o", "_", "i", "r", "_", "1", "2", "6">>,
     <<"i", "s", "o", "_", "i", "r", "_", "1", "2", "7">>,
     <<"i", "s", "o", "_", "i", "r", "_", "1", "3", "8">>,
     <<"i", "s", "o", "_", "i", "r", "_", "1", "4", "4">>,
     <<"i", "s", "o", "_", "i", "r", "_", "1", "4", "8">>,
     <<"i", "s", "o", "_", "i", "r", "_", "1", "5", "7">>,
     <<"i", "s", "o", "_", "i", "r", "_", "1", "6", "6">>,
     <<"i", "s", "o", "_", "i", "r", "_", "1", "9", "9">>,
     <<"i", "s", "o", "_", "i", "r", "_", "2", "2", "6">>,
     <<"i", "s", "o", "_", "i", "r", "_", "6">>, <<"k", "o", "i", "8", "_", "r">>,
     <<"k", "o", "i", "8", "_", "t">>, <<"k", "o", "i", "8", "_", "u">>,
     <<"k", "z", "1", "0", "4", "8">>, <<"k", "z", "_", "1", "0", "4", "8">>, <<"l", "1">>,
     <<"l", "1", "0">>, <<"l", "2">>, <<"l", "3">>, <<"l", "4">>, <<"l", "5">>,
     <<"l", "6">>, <<"l", "7">>, <<"l", "8">>, <<"l", "9">>, <<"l", "a", "t", "i", "n">>,
     <<"l", "a", "t", "i", "n", "1">>, <<"l", "a", "t", "i", "n", "1", "0">>,
     <<"l", "a", "t", "i", "n", "2">>, <<"l", "a", "t", "i", "n", "3">>,
     <<"l", "a", "t", "i", "n", "4">>, <<"l", "a", "t", "i", "n", "5">>,
     <<"l", "a", "t", "i", "n", "6">>, <<"l", "a", "t", "i", "n", "7">>,
     <<"l", "a", "t", "i", "n", "8">>, <<"l", "a", "t", "i", "n", "9">>,
     <<"l", "a", "t", "i", "n", "_", "1">>,
     <<"m", "a", "c", "_", "c", "e", "n", "t", "e", "u", "r", "o">>,
     <<"m", "a", "c", "_", "c", "r", "o", "a", "t", "i", "a", "n">>,
     <<"m", "a", "c", "_", "c", "y", "r", "i", "l", "l", "i", "c">>,
     <<"m", "a", "c", "_", "g", "r", "e", "e", "k">>,
     <<"m", "a", "c", "_", "i", "c", "e", "l", "a", "n", "d">>,
     <<"m", "a", "c", "_", "l", "a", "t", "i", "n", "2">>,
     <<"m", "a", "c", "_", "r", "o", "m", "a", "n">>,
     <<"m", "a", "c", "_", "r", "o", "m", "a", "n", "i", "a", "n">>,
     <<"m", "a", "c", "_", "t", "u", "r", "k", "i", "s", "h">>,
     <<"m", "a", "c", "c", "e", "n", "t", "r", "a", "l", "e", "u", "r", "o", "p", "e">>,
     <<"m", "a", "c", "c", "y", "r", "i", "l", "l", "i", "c">>,
     <<"m", "a", "c", "g", "r", "e", "e", "k">>,
     <<"m", "a", "c", "i", "c", "e", "l", "a", "n", "d">>,
     <<"m", "a", "c", "i", "n", "t", "o", "s", "h">>,
     <<"m", "a", "c", "l", "a", "t", "i", "n", "2">>,
     <<"m", "a", "c", "r", "o", "m", "a", "n">>,
     <<"m", "a", "c", "t", "u", "r", "k", "i", "s", "h">>, <<"p", "a", "l", "m", "o", "s">>,
     <<"p", "t", "1", "5", "4">>, <<"p", "t", "c", "p", "1", "5", "4">>, <<"r", "8">>,
     <<"r", "a", "w", "_", "u", "n", "i", "c", "o", "d", "e", "_", "e", "s", "c", "a", "p", "e">>,
     <<"r", "k", "1", "0", "4", "8">>, <<"r", "o", "m", "a", "n", "8">>,
     <<"r", "u", "s", "c", "i", "i">>,
     <<"s", "t", "r", "k", "1", "0", "4", "8", "_", "2", "0", "0", "2">>,
     <<"t", "h", "a", "i">>, <<"t", "i", "s", "6", "2", "0">>,
     <<"t", "i", "s", "_", "6", "2", "0">>, <<"t", "i", "s", "_", "6", "2", "0", "_", "0">>,
     <<"t", "i", "s", "_", "6", "2", "0", "_", "2", "5", "2", "9", "_", "0">>,
     <<"t", "i", "s", "_", "6", "2", "0", "_", "2", "5", "2", "9", "_", "1">>, <<"u", "8">>,
     <<"u", "n", "i", "c", "o", "d", "e", "_", "e", "s", "c", "a", "p", "e">>, <<"u", "s">>,
     <<"u", "s", "_", "a", "s", "c", "i", "i">>, <<"u", "t", "f">>, <<"u", "t", "f", "8">>,
     <<"u", "t", "f", "8", "_", "u", "c", "s", "2">>,
     <<"u", "t", "f", "8", "_", "u", "c", "s", "4">>, <<"u", "t", "f", "_", "8">>,
     <<"u", "t", "f", "_", "8", "_", "s", "i", "g">>,
     <<"w", "i", "n", "d", "o", "w", "s", "_", "1", "2", "5", "0">>,
     <<"w", "i", "n", "d", "o", "w", "s", "_", "1", "2", "5", "1">>,
     <<"w", "i", "n", "d", "o", "w", "s", "_", "1", "2", "5", "2">>,
     <<"w", "i", "n", "d", "o", "w", "s", "_", "1", "2", "5", "3">>,
     <<"w", "i", "n", "d", "o", "w", "s", "_", "1", "2", "5", "4">>,
     <<"w", "i", "n", "d", "o", "w", "s", "_", "1", "2", "5", "5">>,
     <<"w", "i", "n", "d", "o", "w", "s", "_", "1", "2", "5", "6">>,
     <<"w", "i", "n", "d", "o", "w", "s", "_", "1", "2", "5", "7">>,
     <<"w", "i", "n", "d", "o", "w", "s", "_", "1", "2", "5", "8">>}

\* Codecs of several bytes per character: pyexpat raises ValueError.
CodecsMultiByte ==
    {<<"b", "i", "g", "5">>, <<"b", "i", "g", "5", "_", "h", "k", "s", "c", "s">>,
     <<"b", "i", "g", "5", "_", "t", "w">>, <<"b", "i", "g", "5", "h", "k", "s", "c", "s">>,
     <<"c", "h", "i", "n", "e", "s", "e">>, <<"c", "p", "1", "3", "6", "1">>,
     <<"c", "p", "9", "3", "2">>, <<"c", "p", "9", "3", "6">>, <<"c", "p", "9", "4", "9">>,
     <<"c", "p", "9", "5", "0">>, <<"c", "s", "b", "i", "g", "5">>,
     <<"c", "s", "i", "s", "o", "2", "0", "2", "2", "k", "r">>,
     <<"c", "s", "i", "s", "o", "5", "8", "g", "b", "2", "3", "1", "2", "8", "0">>,
     <<"c", "s", "s", "h", "i", "f", "t", "j", "i", "s">>, <<"e", "u", "c", "_", "c", "n">>,
     <<"e", "u", "c", "_", "j", "i", "s", "2", "0", "0", "4">>,
     <<"e", "u", "c", "_", "j", "i", "s", "_", "2", "0", "0", "4">>,
     <<"e", "u", "c", "_", "j", "i", "s", "x", "0", "2", "1", "3">>,
     <<"e", "u", "c", "_", "j", "p">>, <<"e", "u", "c", "_", "k", "r">>,
     <<"e", "u", "c", "c", "n">>,
     <<"e", "u", "c", "g", "b", "2", "3", "1", "2", "_", "c", "n">>,
     <<"e", "u", "c", "j", "i", "s", "2", "0", "0", "4">>,
     <<"e", "u", "c", "j", "i", "s", "x", "0", "2", "1", "3">>, <<"e", "u", "c", "j", "p">>,
     <<"e", "u", "c", "k", "r">>, <<"g", "b", "1", "8", "0", "3", "0">>,
     <<"g", "b", "1", "8", "0", "3", "0", "_", "2", "0", "0", "0">>,
     <<"g", "b", "2", "3", "1", "2">>,
     <<"g", "b", "2", "3", "1", "2", "_", "1", "9", "8", "0">>,
     <<"g", "b", "2", "3", "1", "2", "_", "8", "0">>, <<"g", "b", "k">>,
     <<"h", "k", "s", "c", "s">>, <<"i", "s", "o", "2", "0", "2", "2", "_", "k", "r">>,
     <<"i", "s", "o", "2", "0", "2", "2", "k", "r">>,
     <<"i", "s", "o", "_", "2", "0", "2", "2", "_", "k", "r">>,
     <<"i", "s", "o", "_", "i", "r", "_", "5", "8">>,
     <<"j", "i", "s", "x", "0", "2", "1", "3">>, <<"j", "o", "h", "a", "b">>,
     <<"k", "o", "r", "e", "a", "n">>, <<"k", "s", "_", "c", "_", "5", "6", "0", "1">>,
     <<"k", "s", "_", "c", "_", "5", "6", "0", "1", "_", "1", "9", "8", "7">>,
     <<"k", "s", "_", "x", "_", "1", "0", "0", "1">>, <<"k", "s", "c", "5", "6", "0", "1">>,
     <<"k", "s", "x", "1", "0", "0", "1">>, <<"m", "s", "1", "3", "6", "1">>,
     <<"m", "s", "9", "3", "2">>, <<"m", "s", "9", "3", "6">>, <<"m", "s", "9", "4", "9">>,
     <<"m", "s", "9", "5", "0">>, <<"m", "s", "_", "k", "a", "n", "j", "i">>,
     <<"m", "s", "k", "a", "n", "j", "i">>, <<"s", "_", "j", "i", "s">>,
     <<"s", "_", "j", "i", "s", "_", "2", "0", "0", "4">>,
     <<"s", "_", "j", "i", "s", "x", "0", "2", "1", "3">>,
     <<"s", "h", "i", "f", "t", "_", "j", "i", "s">>,
     <<"s", "h", "i", "f", "t", "_", "j", "i", "s", "_", "2", "0", "0", "4">>,
     <<"s", "h", "i", "f", "t", "_", "j", "i", "s", "x", "0", "2", "1", "3">>,
     <<"s", "h", "i", "f", "t", "j", "i", "s">>,
     <<"s", "h", "i", "f", "t", "j", "i", "s", "2", "0", "0", "4">>,
     <<"s", "h", "i", "f", "t", "j", "i", "s", "x", "0", "2", "1", "3">>,
     <<"s", "j", "i", "s">>, <<"s", "j", "i", "s", "_", "2", "0", "0", "4">>,
     <<"s", "j", "i", "s", "x", "0", "2", "1", "3">>, <<"u", "1", "6">>, <<"u", "3", "2">>,
     <<"u", "7">>, <<"u", "_", "j", "i", "s">>, <<"u", "h", "c">>, <<"u", "j", "i", "s">>,
     <<"u", "n", "i", "c", "o", "d", "e", "_", "1", "_", "1", "_", "u", "t", "f", "_", "7">>,
     <<"u", "n", "i", "c", "o", "d", "e", "b", "i", "g", "u", "n", "m", "a", "r", "k", "e", "d">>,
     <<"u", "n", "i", "c", "o", "d", "e", "l", "i", "t", "t", "l", "e", "u", "n", "m", "a", "r", "k", "e", "d">>,
     <<"u", "t", "f", "1", "6">>, <<"u", "t", "f", "3", "2">>, <<"u", "t", "f", "7">>,
     <<"u", "t", "f", "_", "1", "6">>, <<"u", "t", "f", "_", "1", "6", "_", "b", "e">>,
     <<"u", "t", "f", "_", "1", "6", "_", "l", "e">>,
     <<"u", "t", "f", "_", "1", "6", "b", "e">>, <<"u", "t", "f", "_", "1", "6", "l", "e">>,
     <<"u", "t", "f", "_", "3", "2">>, <<"u", "t", "f", "_", "3", "2", "_", "b", "e">>,
     <<"u", "t", "f", "_", "3", "2", "_", "l", "e">>,
     <<"u", "t", "f", "_", "3", "2", "b", "e">>, <<"u", "t", "f", "_", "3", "2", "l", "e">>,
     <<"u", "t", "f", "_", "7">>,
     <<"x", "_", "m", "a", "c", "_", "j", "a", "p", "a", "n", "e", "s", "e">>,
     <<"x", "_", "m", "a", "c", "_", "k", "o", "r", "e", "a", "n">>,
     <<"x", "_", "m", "a", "c", "_", "s", "i", "m", "p", "_", "c", "h", "i", "n", "e", "s", "e">>,
     <<"x", "_", "m", "a", "c", "_", "t", "r", "a", "d", "_", "c", "h", "i", "n", "e", "s", "e">>}

\* Codecs that do not keep ASCII: expat refuses them (ParseError).
CodecsNotAscii ==
    {<<"c", "p", "0", "3", "7">>, <<"c", "p", "1", "0", "2", "6">>,
     <<"c", "p", "1", "1", "4", "0">>, <<"c", "p", "2", "7", "3">>,
     <<"c", "p", "4", "2", "4">>, <<"c", "p", "5", "0", "0">>, <<"c", "p", "8", "6", "4">>,
     <<"c", "p", "8", "7", "5">>, <<"c", "s", "i", "b", "m", "0", "3", "7">>,
     <<"c", "s", "i", "b", "m", "1", "0", "2", "6">>,
     <<"c", "s", "i", "b", "m", "2", "7", "3">>, <<"c", "s", "i", "b", "m", "4", "2", "4">>,
     <<"c", "s", "i", "b", "m", "5", "0", "0">>, <<"c", "s", "i", "b", "m", "8", "6", "4">>,
     <<"e", "b", "c", "d", "i", "c", "_", "c", "p", "_", "b", "e">>,
     <<"e", "b", "c", "d", "i", "c", "_", "c", "p", "_", "c", "a">>,
     <<"e", "b", "c", "d", "i", "c", "_", "c", "p", "_", "c", "h">>,
     <<"e", "b", "c", "d", "i", "c", "_", "c", "p", "_", "h", "e">>,
     <<"e", "b", "c", "d", "i", "c", "_", "c", "p", "_", "n", "l">>,
     <<"e", "b", "c", "d", "i", "c", "_", "c", "p", "_", "u", "s">>,
     <<"e", "b", "c", "d", "i", "c", "_", "c", "p", "_", "w", "t">>,
     <<"i", "b", "m", "0", "3", "7">>, <<"i", "b", "m", "0", "3", "9">>,
     <<"i", "b", "m", "1", "0", "2", "6">>, <<"i", "b", "m", "1", "1", "4", "0">>,
     <<"i", "b", "m", "2", "7", "3">>, <<"i", "b", "m", "4", "2", "4">>,
     <<"i", "b", "m", "5", "0", "0">>, <<"i", "b", "m", "8", "6", "4">>,
     <<"m", "a", "c", "_", "a", "r", "a", "b", "i", "c">>,
     <<"m", "a", "c", "_", "f", "a", "r", "s", "i">>}

\* Codecs that raise UnicodeError on the bytes pyexpat probes them with.
CodecsRaising ==
    {<<"i", "d", "n", "a">>, <<"p", "u", "n", "y", "c", "o", "d", "e">>,
     <<"u", "n", "d", "e", "f", "i", "n", "e", "d">>}

\* The names above that are names of modules only, and no alias.
CodecsNoAlias ==
    {<<"a", "s", "c", "i", "i">>, <<"b", "i", "g", "5">>,
     <<"b", "i", "g", "5", "h", "k", "s", "c", "s">>, <<"c", "h", "a", "r", "m", "a", "p">>,
     <<"c", "p", "0", "3", "7">>, <<"c", "p", "1", "0", "0", "6">>,
     <<"c", "p", "1", "0", "2", "6">>, <<"c", "p", "1", "1", "2", "5">>,
     <<"c", "p", "1", "1", "4", "0">>, <<"c", "p", "1", "2", "5", "0">>,
     <<"c", "p", "1", "2", "5", "1">>, <<"c", "p", "1", "2", "5", "2">>,
     <<"c", "p", "1", "2", "5", "3">>, <<"c", "p", "1", "2", "5", "4">>,
     <<"c", "p", "1", "2", "5", "5">>, <<"c", "p", "1", "2", "5", "6">>,
     <<"c", "p", "1", "2", "5", "7">>, <<"c", "p", "1", "2", "5", "8">>,
     <<"c", "p", "2", "7", "3">>, <<"c", "p", "4", "2", "4">>, <<"c", "p", "4", "3", "7">>,
     <<"c", "p", "5", "0", "0">>, <<"c", "p", "7", "2", "0">>, <<"c", "p", "7", "3", "7">>,
     <<"c", "p", "7", "7", "5">>, <<"c", "p", "8", "5", "0">>, <<"c", "p", "8", "5", "2">>,
     <<"c", "p", "8", "5", "5">>, <<"c", "p", "8", "5", "6">>, <<"c", "p", "8", "5", "7">>,
     <<"c", "p", "8", "5", "8">>, <<"c", "p", "8", "6", "0">>, <<"c", "p", "8", "6", "1">>,
     <<"c", "p", "8", "6", "2">>, <<"c", "p", "8", "6", "3">>, <<"c", "p", "8", "6", "4">>,
     <<"c", "p", "8", "6", "5">>, <<"c", "p", "8", "6", "6">>, <<"c", "p", "8", "6", "9">>,
     <<"c", "p", "8", "7", "4">>, <<"c", "p", "8", "7", "5">>, <<"c", "p", "9", "3", "2">>,
     <<"c", "p", "9", "4", "9">>, <<"c", "p", "9", "5", "0">>,
     <<"e", "u", "c", "_", "j", "i", "s", "_", "2", "0", "0", "4">>,
     <<"e", "u", "c", "_", "j", "i", "s", "x", "0", "2", "1", "3">>,
     <<"e", "u", "c", "_", "j", "p">>, <<"e", "u", "c", "_", "k", "r">>,
     <<"g", "b", "1", "8", "0", "3", "0">>, <<"g", "b", "2", "3", "1", "2">>,
     <<"g", "b", "k">>, <<"h", "p", "_", "r", "o", "m", "a", "n", "8">>, <<"h", "z">>,
     <<"i", "d", "n", "a">>, <<"i", "s", "o", "2", "0", "2", "2", "_", "j", "p">>,
     <<"i", "s", "o", "2", "0", "2", "2", "_", "j", "p", "_", "1">>,
     <<"i", "s", "o", "2", "0", "2", "2", "_", "j", "p", "_", "2">>,
     <<"i", "s", "o", "2", "0", "2", "2", "_", "j", "p", "_", "2", "0", "0", "4">>,
     <<"i", "s", "o", "2", "0", "2", "2", "_", "j", "p", "_", "3">>,
     <<"i", "s", "o", "2", "0", "2", "2", "_", "j", "p", "_", "e", "x", "t">>,
     <<"i", "s", "o", "2", "0", "2", "2", "_", "k", "r">>,
     <<"i", "s", "o", "8", "8", "5", "9", "_", "1", "0">>,
     <<"i", "s", "o", "8", "8", "5", "9", "_", "1", "1">>,
     <<"i", "s", "o", "8", "8", "5", "9", "_", "1", "3">>,
     <<"i", "s", "o", "8", "8", "5", "9", "_", "1", "4">>,
     <<"i", "s", "o", "8", "8", "5", "9", "_", "1", "5">>,
     <<"i", "s", "o", "8", "8", "5", "9", "_", "1", "6">>,
     <<"i", "s", "o", "8", "8", "5", "9", "_", "2">>,
     <<"i", "s", "o", "8", "8", "5", "9", "_", "3">>,
     <<"i", "s", "o", "8", "8", "5", "9", "_", "4">>,
     <<"i", "s", "o", "8", "8", "5", "9", "_", "5">>,
     <<"i", "s", "o", "8", "8", "5", "9", "_", "6">>,
     <<"i", "s", "o", "8", "8", "5", "9", "_", "7">>,
     <<"i", "s", "o", "8", "8", "5", "9", "_", "8">>,
     <<"i", "s", "o", "8", "8", "5", "9", "_", "9">>, <<"j", "o", "h", "a", "b">>,
     <<"k", "o", "i", "8", "_", "r">>, <<"k", "o", "i", "8", "_", "t">>,
     <<"k", "o", "i", "8", "_", "u">>, <<"k", "z", "1", "0", "4", "8">>,
     <<"l", "a", "t", "i", "n", "_", "1">>,
     <<"m", "a", "c", "_", "a", "r", "a", "b", "i", "c">>,
     <<"m", "a", "c", "_", "c", "r", "o", "a", "t", "i", "a", "n">>,
     <<"m", "a", "c", "_", "c", "y", "r", "i", "l", "l", "i", "c">>,
     <<"m", "a", "c", "_", "f", "a", "r", "s", "i">>,
     <<"m", "a", "c", "_", "g", "r", "e", "e", "k">>,
     <<"m", "a", "c", "_", "i", "c", "e", "l", "a", "n", "d">>,
     <<"m", "a", "c", "_", "l", "a", "t", "i", "n", "2">>,
     <<"m", "a", "c", "_", "r", "o", "m", "a", "n">>,
     <<"m", "a", "c", "_", "r", "o", "m", "a", "n", "i", "a", "n">>,
     <<"m", "a", "c", "_", "t", "u", "r", "k", "i", "s", "h">>,
     <<"p", "a", "l", "m", "o", "s">>, <<"p", "t", "c", "p", "1", "5", "4">>,
     <<"p", "u", "n", "y", "c", "o", "d", "e">>,
     <<"r", "a", "w", "_", "u", "n", "i", "c", "o", "d", "e", "_", "e", "s", "c", "a", "p", "e">>,
     <<"s", "h", "i", "f", "t", "_", "j", "i", "s">>,
     <<"s", "h", "i", "f", "t", "_", "j", "i", "s", "_", "2", "0", "0", "4">>,
     <<"s", "h", "i", "f", "t", "_", "j", "i", "s", "x", "0", "2", "1", "3">>,
     <<"t", "i", "s", "_", "6", "2", "0">>, <<"u", "n", "d", "e", "f", "i", "n", "e", "d">>,
     <<"u", "n", "i", "c", "o", "d", "e", "_", "e", "s", "c", "a", "p", "e">>,
     <<"u", "t", "f", "_", "1", "6">>, <<"u", "t", "f", "_", "1", "6", "_", "b", "e">>,
     <<"u", "t", "f", "_", "1", "6", "_", "l", "e">>, <<"u", "t", "f", "_", "3", "2">>,
     <<"u", "t", "f", "_", "3", "2", "_", "b", "e">>,
     <<"u", "t", "f", "_", "3", "2", "_", "l", "e">>, <<"u", "t", "f", "_", "7">>,
     <<"u", "t", "f", "_", "8">>, <<"u", "t", "f", "_", "8", "_", "s", "i", "g">>}

Codecs == CodecsEightBit \cup CodecsMultiByte \cup CodecsNotAscii \cup CodecsRaising

\* encodings.search_function: the name under which the codec is found, or
\* None. An alias is looked up as it is and with "_" for every "."; a module
\* is looked up as it is, and no module name holds a ".".
search_function(enc) ==
    LET norm_encoding == normalize_encoding(enc)
    IN IF norm_encoding \in Codecs THEN Some(norm_encoding)
       ELSE IF undot(norm_encoding) \in Codecs \ CodecsNoAlias
       THEN Some(undot(norm_encoding))
       ELSE None

\* What the parser answers to the declared encoding of a file whose bytes are
\* UTF-16 (utf16) or UTF-8 and whose characters are ASCII. A name the
\* registry does not hold, or that names a codec that is no text encoding:
\* LookupError.
EncodingOutcome(enc, utf16) ==
    IF ~ValidEncName(enc) THEN "ParseError"
    ELSE IF lower(enc) \in ExpatEightBit THEN (IF utf16 THEN "ParseError" ELSE "ok")
    ELSE IF lower(enc) \in ExpatUtf16 THEN (IF utf16 THEN "ok" ELSE "ParseError")
    ELSE IF lower(enc) \in ExpatUtf16BE THEN "ParseError"
    ELSE IF search_function(enc) = None THEN "LookupError"
    ELSE IF search_function(enc)[1] \in CodecsMultiByte
    THEN "ValueError: multi-byte encodings are not supported"
    ELSE IF search_function(enc)[1] \in CodecsNotAscii THEN "ParseError"
    ELSE IF search_function(enc)[1] \in CodecsRaising THEN "UnicodeError"
    ELSE IF utf16 THEN "ParseError"
    ELSE "ok"

\* after the declaration: comments, processing instructions and XML white
\* space around exactly one root element
IsMisc(tok) ==
    \/ tok.t \in {"comment", "xmlpi"}
    \/ tok.t = "ws" /\ \A i \in 1..Len(tok.text) : tok.text[i] \in XmlSpace

WellFormed(body) ==
    /\ Cardinality({i \in 1..Len(body) : body[i].t = "elem"}) = 1
    /\ \A i \in 1..Len(body) : body[i].t = "elem" \/ IsMisc(body[i])

\* ET.parse: "ok" or the exception. An optional byte order mark, an optional
\* XML declaration at the very start, whose encoding is looked up as soon as
\* it is read, then the document.
ET_parse(txt) ==
    LET utf16 == txt # <<>> /\ Head(txt) = BOM16
        a == IF txt # <<>> /\ Head(txt) \in {BOM, BOM16} THEN Tail(txt) ELSE txt
        decl == a # <<>> /\ Head(a).t = "xmldecl"
        b == IF decl THEN Tail(a) ELSE a
        enc == IF decl THEN EncodingOutcome(Head(a).encoding, utf16) ELSE "ok"
    IN IF enc # "ok" THEN enc
       ELSE IF WellFormed(b) THEN "ok"
       ELSE "ParseError"

\* Element.get(key): the attribute, or None
get(elem, key) == IF key \in DOMAIN elem.attrs THEN Some(elem.attrs[key]) ELSE None

\* not x, for x a str or None
falsy(x) == x = None \/ x = Some(<<>>)

\* the pair (addon_id, version), or the exception raised
parse_addon_meta(tree) ==
    LET txt == Entry(tree, <<N_addon_xml>>).data
    IN IF ~is_file(tree, <<N_addon_xml>>)
       THEN [ok |-> FALSE, err |-> "OSError"]
       ELSE IF ET_parse(txt) # "ok"
       THEN [ok |-> FALSE, err |-> ET_parse(txt)]
       ELSE LET root == txt[CHOOSE i \in 1..Len(txt) : txt[i].t = "elem"]
                addon_id == get(root, "id")
                version == get(root, "version")
            IN IF falsy(addon_id) \/ falsy(version)
               THEN [ok |-> FALSE, err |-> "ValueError: Missing id/version"]
               ELSE [ok |-> TRUE, addon_id |-> addon_id[1], version |-> version[1]]

\* ------------------------------------------------------------------ ensure_placeholder_assets
PNG_1PX == <<Raw("PNG_1PX")>>

\* icon_path.write_bytes raises: the path is a link into a missing directory
ensure_placeholder_assets_raises(tree) ==
    HasEntry(tree, <<N_icon_png>>) /\ Entry(tree, <<N_icon_png>>).kind = "broken"

\* ensure_placeholder_assets when the write succeeds
ensure_placeholder_assets(tree) ==
    IF ~exists(tree, <<N_icon_png>>)
    THEN WriteFile(tree, <<N_icon_png>>, PNG_1PX)
    ELSE tree

\* ------------------------------------------------------------------ should_exclude
should_exclude(tree, path) ==
    LET name == name_of(path)
    IN IF name \in EXCLUDE_FILES THEN TRUE
       ELSE IF startswith(name, ".") /\ is_file(tree, path) THEN TRUE
       ELSE IF lower(suffix(name)) \in EXCLUDE_EXTS THEN TRUE
       ELSE FALSE

\* ------------------------------------------------------------------ zip_addon: the walk
\* KeepDir with a fault: the filter forgets EXCLUDE_DIRS
KeepDir_OnlyHidden(d) == ~startswith(name_of(d), ".")

\* dirs[:] = [d for d in dirs if d not in EXCLUDE_DIRS and not d.startswith('.')]
KeepDir(d) == name_of(d) \notin EXCLUDE_DIRS /\ ~startswith(name_of(d), ".")

\* os.walk at one directory: the sub-directories it descends into
WalkDirs(tree, root) ==
    {d \in {e.path : e \in {c \in Children(tree, root) : c.kind = "dir"}} : KeepDir(d)}

\* os.walk at one directory: the files of that directory handed to zf.write
WalkFiles(tree, root) ==
    {f \in {e.path : e \in {c \in Children(tree, root) : c.kind # "dir"}} :
        ~should_exclude(tree, f)}

\* every path handed to zf.write by the walk below root
RECURSIVE Walk(_, _)
Walk(tree, root) ==
    WalkFiles(tree, root) \cup UNION {Walk(tree, d) : d \in WalkDirs(tree, root)}

\* zf.write(fpath, arcname) raises when fpath cannot be read
Unreadable(tree, f) == Entry(tree, f).kind # "file"

\* the walk below root raises
WalkFails(tree, root) == \E f \in Walk(tree, root) : Unreadable(tree, f)

\* What a walk that raises has written before: os.walk is top-down, so the
\* files of a directory come before its sub-directories; the order inside one
\* listing is arbitrary.
RECURSIVE PartialWalks(_, _)
PartialWalks(tree, root) ==
    LET files == WalkFiles(tree, root)
        good == {f \in files : ~Unreadable(tree, f)}
        bad == {d \in WalkDirs(tree, root) : WalkFails(tree, d)}
        fine == WalkDirs(tree, root) \ bad
    IN IF good # files
       THEN SUBSET good
       ELSE {files \cup UNION {Walk(tree, g) : g \in G} \cup P :
                G \in SUBSET fine,
                P \in UNION {PartialWalks(tree, d) : d \in bad}}

\* arcname = Path(addon_id) / fpath.relative_to(addon_dir)
Arcname(addon_id, rel) == [top |-> parts(addon_id), rel |-> rel]

Member(tree, addon_id, f) ==
    [arcname |-> Arcname(addon_id, f), data |-> Entry(tree, f).data]

ZipBytes(tree, addon_id, written) ==
    [zip |-> {Member(tree, addon_id, f) : f \in written}]

\* hashlib.md5(bytes).hexdigest(): the digest is a function of the bytes
md5_hex(bytes) == [md5 |-> bytes]

\* ------------------------------------------------------------------ output file systems
\* a directory that holds nothing
EmptyDir == [files |-> [p \in {} |-> <<>>], dirs |-> {}]

\* the directory itself (the empty path) or a directory below it
is_dir(fs, p) == p = <<>> \/ p \in fs.dirs

\* Path.mkdir(parents=True, exist_ok=True) raises: the path or one of its
\* parents is a file
mkdir_raises(fs, p) == \E k \in 1..Len(p) : SubSeq(p, 1, k) \in DOMAIN fs.files

\* Path.mkdir(parents=True, exist_ok=True) when it succeeds
mkdir(fs, p) == [fs EXCEPT !.dirs = @ \cup {SubSeq(p, 1, k) : k \in 1..Len(p)}]

\* opening a path for writing raises: it is a directory, or its parent is none
open_raises(fs, p) == is_dir(fs, p) \/ ~is_dir(fs, parent_of(p))

\* a file is created or overwritten
WriteTo(fs, path, bytes) ==
    [fs EXCEPT !.files = [p \in DOMAIN @ \cup {path} |-> IF p = path THEN bytes ELSE @[p]]]

\* f"{addon_id}-{version}.zip"
zip_name(addon_id, version) == addon_id \o <<"-">> \o version \o <<".", "z", "i", "p">>

\* path.with_suffix(path.suffix + '.md5')
with_md5_suffix(name) == with_suffix(name, suffix(name) \o <<".", "m", "d", "5">>)

\* out_dir = out_root / addon_id
out_dir(addon_id) == parts(addon_id)

\* zip_path = out_dir / zip_name
zip_path(addon_id, version) == out_dir(addon_id) \o parts(zip_name(addon_id, version))

md5_path(path) == parent_of(path) \o <<with_md5_suffix(name_of(path))>>

manifest_path == <<N_addons_xml>>
manifest_md5_path == <<N_addons_xml \o <<".", "m", "d", "5">>>>

\* ------------------------------------------------------------------ zip_addon
\* line 74 raises
zip_addon_mkdir_raises(zs, addon_id) == mkdir_raises(zs, out_dir(addon_id))

\* line 78, ZipFile(zip_path, 'w'), raises: out_dir has been created
zip_addon_open_raises(zs, addon_id, version) ==
    open_raises(mkdir(zs, out_dir(addon_id)), zip_path(addon_id, version))

\* zip_addon with a fault: the digest is taken from what the path held
\* before the archive was rewritten
zip_addon_StaleMd5(zs, tree, addon_id, version) ==
    LET path == zip_path(addon_id, version)
        bytes == ZipBytes(tree, addon_id, Walk(tree, <<>>))
        zs1 == WriteTo(mkdir(zs, out_dir(addon_id)), path, bytes)
    IN WriteTo(zs1, md5_path(path),
               md5_hex(IF path \in DOMAIN zs.files THEN zs.files[path]
                       ELSE zs1.files[path]))

\* zip_addon when nothing raises: out_dir, the archive, then its md5 sibling
zip_addon(zs, tree, addon_id, version) ==
    LET path == zip_path(addon_id, version)
        bytes == ZipBytes(tree, addon_id, Walk(tree, <<>>))
        zs1 == WriteTo(mkdir(zs, out_dir(addon_id)), path, bytes)
    IN WriteTo(zs1, md5_path(path), md5_hex(zs1.files[path]))

\* zip_addon when zf.write raises: ZipFile.__exit__ closes the archive over
\* the members written so far and the md5 line is never reached
zip_addon_raises(zs, tree, addon_id, version, written) ==
    WriteTo(mkdir(zs, out_dir(addon_id)), zip_path(addon_id, version),
            ZipBytes(tree, addon_id, written))

\* line 93 raises: the archive is complete, its md5 sibling is a directory
zip_addon_md5_raises(zs, addon_id, version) ==
    open_raises(mkdir(zs, out_dir(addon_id)), md5_path(zip_path(addon_id, version)))

\* ------------------------------------------------------------------ build_addons_xml
RECURSIVE join(_, _)
join(chunks, sep) ==
    IF chunks = <<>> THEN <<>>
    ELSE IF Len(chunks) = 1 THEN chunks[1]
    ELSE chunks[1] \o sep \o join(Tail(chunks), sep)

addons_xml(chunks) ==
    <<XmlDecl(<<"U", "T", "F", "-", "8">>), NL, Tag("addons"), NL>>
        \o join(chunks, <<NL>>) \o <<NL, Tag("/addons"), NL>>

\* build_addons_xml with a fault: the manifest is opened for appending
build_addons_xml_Append(zs, trees) ==
    LET chunks == [k \in 1..Len(trees) |-> read_addon_xml(trees[k])]
        old == IF manifest_path \in DOMAIN zs.files THEN zs.files[manifest_path] ELSE <<>>
        zs1 == WriteTo(zs, manifest_path, old \o addons_xml(chunks))
    IN WriteTo(zs1, manifest_md5_path, md5_hex(zs1.files[manifest_path]))

\* lines 102-105: read_addon_xml raises for some addon, RuntimeError is
\* raised before anything is written
build_addons_xml_raises(trees) ==
    \E k \in 1..Len(trees) : read_addon_xml_raises(trees[k])

\* line 108 raises: addons.xml is a directory
build_addons_xml_write_raises(zs) == open_raises(zs, manifest_path)

\* line 110 raises: the manifest is written, addons.xml.md5 is a directory
build_addons_xml_md5_raises(zs) == open_raises(zs, manifest_md5_path)

\* lines 106-108: the manifest alone
build_addons_xml_manifest(zs, trees) ==
    WriteTo(zs, manifest_path,
            addons_xml([k \in 1..Len(trees) |-> read_addon_xml(trees[k])]))

\* build_addons_xml when nothing raises
build_addons_xml(zs, trees) ==
    LET chunks == [k \in 1..Len(trees) |-> read_addon_xml(trees[k])]
        zs1 == WriteTo(zs, manifest_path, addons_xml(chunks))
    IN WriteTo(zs1, manifest_md5_path, md5_hex(zs1.files[manifest_path]))

\* ------------------------------------------------------------------ input trees
Attrs(i, v) == [id |-> i, version |-> v]

\* the ids, versions and encodings the descriptors below declare
Id ==
    [foo |-> <<"f", "o", "o">>, bar |-> <<"b", "a", "r">>, acme |-> <<"a", "c", "m", "e">>,
     baz |-> <<"b", "a", "z">>, brk |-> <<"b", "r", "k">>, bad |-> <<"b", "a", "d">>,
     u16 |-> <<"u", "1", "6">>, z |-> <<"z">>, a_b |-> <<"a", "/", "b">>]
Ver ==
    [v1 |-> <<"1">>, v0_0_1 |-> <<"0", ".", "0", ".", "1">>,
     v0_1_0 |-> <<"0", ".", "1", ".", "0">>, v1_0_0 |-> <<"1", ".", "0", ".", "0">>,
     v2_0_0 |-> <<"2", ".", "0", ".", "0">>, v2_3_1 |-> <<"2", ".", "3", ".", "1">>,
     v3_0_0 |-> <<"3", ".", "0", ".", "0">>, v3_0_1 |-> <<"3", ".", "0", ".", "1">>]
Enc ==
    [utf8 |-> <<"u", "t", "f", "-", "8">>, utf16 |-> <<"u", "t", "f", "-", "1", "6">>,
     bogus |-> <<"b", "o", "g", "u", "s">>]

\* a descriptor with the line ends of Windows after its comment
FooXml(v) ==
    <<XmlDecl(Enc.utf8), NL, Comment, WS(<<"\r", "\n">>), Elem(Attrs(Id.foo, v)), NL>>

\* an addon with every kind of excluded entry, at the top and deeper
Cat_foo ==
    [name |-> "foo", kind |-> "dir", tree |->
        {File(<<N_addon_xml>>, FooXml(Ver.v1_0_0)),
         File(<<N_main_py>>, <<Raw("foo main 1")>>),
         File(<<N_Thumbs_db>>, <<Raw("thumbs")>>),
         File(<<N_dot_env>>, <<Raw("secret")>>),
         File(<<N_m_PYC>>, <<Raw("bytecode")>>),
         File(<<N_trail>>, <<Raw("note")>>),
         Dir(<<N_git>>),
         File(<<N_git, N_main_py>>, <<Raw("git object")>>),
         Broken(<<N_git, N_lnk>>),
         Dir(<<N_data_db>>),
         File(<<N_data_db, N_other_py>>, <<Raw("in data.db")>>),
         Dir(<<N_lib>>),
         File(<<N_lib, N_other_py>>, <<Raw("lib o")>>),
         File(<<N_lib, N_a_b_swp>>, <<Raw("swap")>>),
         Dir(<<N_lib, N_pycache>>),
         File(<<N_lib, N_pycache, N_main_py>>, <<Raw("cached")>>),
         Dir(<<N_lib, N_zips>>),
         File(<<N_lib, N_zips, N_other_py>>, <<Raw("nested zips")>>)}]

Cat_bar ==
    [name |-> "bar", kind |-> "dir", tree |->
        {File(<<N_addon_xml>>, <<Elem(Attrs(Id.bar, Ver.v2_3_1))>>),
         File(<<N_main_py>>, <<Raw("bar main")>>)}]

\* the repository addon, without icon.png
Cat_repo ==
    [name |-> "repository.centulus", kind |-> "dir", tree |->
        {File(<<N_addon_xml>>, <<XmlPI, NL, Elem(Attrs(repo_id, Ver.v3_0_0))>>)}]

\* the descriptor declares no version
Cat_acme ==
    [name |-> "acme", kind |-> "dir", tree |->
        {File(<<N_addon_xml>>, <<Elem([id |-> Id.acme])>>),
         File(<<N_main_py>>, <<Raw("acme main")>>)}]

\* a second directory whose descriptor declares foo 1.0.0
Cat_copy ==
    [name |-> "copy", kind |-> "dir", tree |->
        {File(<<N_addon_xml>>, <<Elem(Attrs(Id.foo, Ver.v1_0_0))>>),
         File(<<N_other_py>>, <<Raw("copy o")>>)}]

\* the output directory, holding a descriptor and a file somebody put there
Cat_zips ==
    [name |-> "zips", kind |-> "dir", tree |->
        {File(<<N_addon_xml>>, <<Elem(Attrs(Id.z, Ver.v1))>>),
         File(<<<<"a">>>>, <<Raw("stray")>>)}]

\* a directory without descriptor, and a plain file in REPO_DIR
Cat_docs ==
    [name |-> "docs", kind |-> "dir", tree |-> {File(<<N_main_py>>, <<Raw("doc")>>)}]
Cat_readme == [name |-> "README", kind |-> "file", tree |-> {}]

\* a descriptor saved with a byte order mark
Cat_baz ==
    [name |-> "baz", kind |-> "dir", tree |->
        {File(<<N_addon_xml>>,
              <<BOM, XmlDecl(Enc.utf8), NL, Elem(Attrs(Id.baz, Ver.v0_1_0)), NL>>)}]

\* an addon holding a dangling symbolic link
Cat_brk ==
    [name |-> "brk", kind |-> "dir", tree |->
        {File(<<N_addon_xml>>, <<Elem(Attrs(Id.brk, Ver.v1))>>),
         Dir(<<N_lib>>),
         File(<<N_lib, N_main_py>>, <<Raw("brk main")>>),
         Broken(<<N_lib, N_lnk>>)}]

\* white space before the XML declaration: no well-formed document
Cat_bad ==
    [name |-> "bad", kind |-> "dir", tree |->
        {File(<<N_addon_xml>>, <<NL, XmlDecl(Enc.utf8), Elem(Attrs(Id.bad, Ver.v1))>>)}]

\* a declaration that names an encoding nobody knows
Cat_enc ==
    [name |-> "bad", kind |-> "dir", tree |->
        {File(<<N_addon_xml>>, <<XmlDecl(Enc.bogus), Elem(Attrs(Id.bad, Ver.v1))>>)}]

\* a form feed after the declaration: white space for Python, none for XML
Cat_ff ==
    [name |-> "bad", kind |-> "dir", tree |->
        {File(<<N_addon_xml>>,
              <<XmlDecl(Enc.utf8), WS(<<" ", "\f", "\n">>), Elem(Attrs(Id.bad, Ver.v1))>>)}]

\* a descriptor saved as UTF-16, as its declaration says
Cat_u16 ==
    [name |-> "u16", kind |-> "dir", tree |->
        {File(<<N_addon_xml>>, <<BOM16, XmlDecl(Enc.utf16), Elem(Attrs(Id.u16, Ver.v1))>>)}]

\* an id that is the name of the manifest
Cat_mf ==
    [name |-> "u16", kind |-> "dir", tree |->
        {File(<<N_addon_xml>>, <<Elem(Attrs(N_addons_xml, Ver.v1))>>)}]

\* an id that holds a path separator
Cat_sl ==
    [name |-> "brk", kind |-> "dir", tree |->
        {File(<<N_addon_xml>>, <<Elem(Attrs(Id.a_b, Ver.v1))>>)}]

\* the repository addon whose icon.png is a link into a missing directory
Cat_lnk ==
    [name |-> "repository.centulus", kind |-> "dir", tree |->
        {File(<<N_addon_xml>>, <<Elem(Attrs(repo_id, Ver.v3_0_0))>>),
         Broken(<<N_icon_png>>)}]

\* the repository addon whose icon.png is a link to a missing file
Cat_dng ==
    [name |-> "repository.centulus", kind |-> "dir", tree |->
        {File(<<N_addon_xml>>, <<Elem(Attrs(repo_id, Ver.v3_0_0))>>),
         Dangling(<<N_icon_png>>)}]

\* a plain file where the output directory should be
Cat_zipsfile == [name |-> "zips", kind |-> "file", tree |-> {}]

Catalogue ==
    {Cat_foo, Cat_bar, Cat_repo, Cat_acme, Cat_copy, Cat_zips, Cat_docs, Cat_readme,
     Cat_baz, Cat_brk, Cat_bad, Cat_enc, Cat_ff, Cat_u16, Cat_mf, Cat_sl, Cat_lnk,
     Cat_dng, Cat_zipsfile}

\* what somebody may change in an addon between two runs
Edits ==
    {[child |-> "foo", path |-> <<N_main_py>>, data |-> <<Raw("foo main 2")>>],
     [child |-> "bar", path |-> <<N_addon_xml>>,
      data |-> <<Comment, Elem(Attrs(Id.bar, Ver.v2_3_1))>>],
     [child |-> "foo", path |-> <<N_addon_xml>>, data |-> FooXml(Ver.v2_0_0)],
     [child |-> "repository.centulus", path |-> <<N_addon_xml>>,
      data |-> <<Elem(Attrs(repo_id, Ver.v3_0_1))>>],
     [child |-> "acme", path |-> <<N_addon_xml>>,
      data |-> <<Elem(Attrs(Id.acme, Ver.v0_0_1))>>]}

\* the listings of REPO_DIR: child names are distinct
Listings ==
    {l \in UNION {[1..n -> Catalogue] : n \in 0..MaxAddons} :
        \A i, j \in 1..Len(l) : l[i].name = l[j].name => i = j}

\* the files and directories of a tree, as a file system
FsOf(tree) ==
    [files |-> [p \in {e.path : e \in {x \in tree : x.kind = "file"}} |->
                   Entry(tree, p).data],
     dirs |-> {e.path : e \in {x \in tree : x.kind = "dir"}}]

\* what ZIPS_DIR holds in a listing
ZipsOf(l) ==
    IF \E i \in 1..Len(l) : l[i].name = "zips" /\ l[i].kind = "dir"
    THEN FsOf(l[CHOOSE i \in 1..Len(l) : l[i].name = "zips"].tree)
    ELSE EmptyDir

\* the listing without what ZIPS_DIR holds
ChildrenOf(l) ==
    [i \in 1..Len(l) |-> IF l[i].name = "zips" THEN [l[i] EXCEPT !.tree = {}] ELSE l[i]]

\* ------------------------------------------------------------------ main: discovery
\* child.is_dir() and child.name != 'zips' and (child / 'addon.xml').exists()
IsAddon(child) ==
    child.kind = "dir" /\ child.name # "zips" /\ exists(child.tree, <<N_addon_xml>>)

\* the for loop over REPO_DIR.iterdir(): the addons, in listing order
RECURSIVE discover(_, _)
discover(l, i) ==
    IF i > Len(l) THEN <<>>
    ELSE (IF IsAddon(l[i]) THEN <<i>> ELSE <<>>) \o discover(l, i + 1)

\* ZIPS_DIR.mkdir(parents=True, exist_ok=True) raises FileExistsError:
\* exist_ok tolerates a directory only
mkdir_zips_raises(l) ==
    \E i \in 1..Len(l) : l[i].name = "zips" /\ l[i].kind # "dir"

\* ZIPS_DIR.mkdir(parents=True, exist_ok=True) when it succeeds
mkdir_zips(l) ==
    IF \E i \in 1..Len(l) : l[i].name = "zips"
    THEN l
    ELSE Append(l, [name |-> "zips", kind |-> "dir", tree |-> {}])

\* main_mkdir with a fault: ZIPS_DIR is created before the list of addons
\* is tested
main_mkdir_First(l, found) == mkdir_zips(l)

\* main, lines 125-129: ZIPS_DIR is created once the list of addons is known
\* not to be empty
main_mkdir(l, found) == IF found = <<>> THEN l ELSE mkdir_zips(l)

\* main, lines 125-129: the same test decides whether mkdir can raise
main_mkdir_raises(l, found) == found # <<>> /\ mkdir_zips_raises(l)

\* SCRIPT_DIR with a directory where the md5 of the repository zip goes
Top_md5_dir ==
    [EmptyDir EXCEPT !.dirs = {<<with_md5_suffix(zip_name(repo_id, Ver.v3_0_0))>>}]

\* SCRIPT_DIR with a directory where the repository zip goes, which holds a
\* directory of the same name
Top_zip_dirs ==
    LET name == zip_name(repo_id, Ver.v3_0_0)
    IN [EmptyDir EXCEPT !.dirs = {<<name>>, <<name, name>>}]

\* the same where the md5 of the repository zip goes
Top_md5_dirs ==
    LET name == with_md5_suffix(zip_name(repo_id, Ver.v3_0_0))
    IN [EmptyDir EXCEPT !.dirs = {<<name>>, <<name, name>>}]

\* what SCRIPT_DIR holds before the first run
Tops == {EmptyDir, Top_md5_dir, Top_zip_dirs, Top_md5_dirs}

Snapshot == [listing |-> listing, zips |-> zips, top |-> top]
NoPrev == [valid |-> FALSE]

\* ------------------------------------------------------------------ the state machine
Init ==
    /\ repo_dir \in {"missing", "file", "dir"}
    /\ \E l \in Listings :
        /\ repo_dir # "dir" => l = <<>>
        /\ listing = ChildrenOf(l)
        /\ zips = ZipsOf(l)
    /\ top \in Tops
    /\ pc = "idle"
    /\ addons = <<>>
    /\ idx = 1
    /\ repo_zip = None
    /\ repo_version = None
    /\ status = "running"
    /\ log = <<>>
    /\ runs = 0
    /\ start = Snapshot
    /\ last = NoPrev
    /\ prev = NoPrev

\* main, lines 115-132: the process starts, discovers the addons and creates
\* ZIPS_DIR, or exits at once. REPO_DIR.exists() holds for a regular file,
\* for which REPO_DIR.iterdir() raises NotADirectoryError
Discover ==
    /\ pc \in {"idle", "done", "failed"}
    /\ runs < MaxRuns
    /\ runs' = runs + 1
    /\ start' = Snapshot
    /\ prev' = last
    /\ last' = NoPrev
    /\ log' = <<>>
    /\ idx' = 1
    /\ repo_zip' = None
    /\ repo_version' = None
    /\ IF repo_dir = "missing"
       THEN /\ pc' = "failed"
            /\ status' = "SystemExit: Repo folder not found"
            /\ addons' = <<>>
            /\ UNCHANGED listing
       ELSE IF repo_dir = "file"
       THEN /\ pc' = "failed"
            /\ status' = "OSError"
            /\ addons' = <<>>
            /\ UNCHANGED listing
       ELSE /\ addons' = discover(listing, 1)
            /\ IF main_mkdir_raises(listing, addons')
               THEN /\ pc' = "failed"
                    /\ status' = "OSError"
                    /\ UNCHANGED listing
               ELSE /\ listing' = main_mkdir(listing, addons')
                    /\ IF addons' = <<>>
                       THEN /\ pc' = "failed"
                            /\ status' = "SystemExit: No addons found"
                       ELSE /\ pc' = "package"
                            /\ status' = "running"
    /\ UNCHANGED <<repo_dir, zips, top>>

\* is_repo_addon with a fault: every addon is taken for the repository addon
is_repo_addon_Always(addon_id) == TRUE

\* if addon_id == repo_id
is_repo_addon(addon_id) == addon_id = repo_id

\* the run ends with an exception raised in the loop over addons
Raise(err) ==
    /\ pc' = "failed"
    /\ status' = err
    /\ UNCHANGED <<idx, repo_zip, repo_version>>

\* main, lines 134-142: one iteration of the loop over addons
Package ==
    /\ pc = "package"
    /\ LET i == addons[idx]
           addon_dir == listing[i].tree
           meta == parse_addon_meta(addon_dir)
       IN IF ~meta.ok
          THEN Raise(meta.err) /\ UNCHANGED <<listing, zips>>
          ELSE IF is_repo_addon(meta.addon_id) /\ ensure_placeholder_assets_raises(addon_dir)
          THEN Raise("OSError") /\ UNCHANGED <<listing, zips>>
          ELSE LET tree == IF is_repo_addon(meta.addon_id)
                           THEN ensure_placeholder_assets(addon_dir)
                           ELSE addon_dir
               IN /\ listing' = [listing EXCEPT ![i].tree = tree]
                  /\ IF zip_addon_mkdir_raises(zips, meta.addon_id)
                     THEN Raise("OSError") /\ UNCHANGED zips
                     ELSE IF zip_addon_open_raises(zips, meta.addon_id, meta.version)
                     THEN /\ Raise("OSError")
                          /\ zips' = mkdir(zips, out_dir(meta.addon_id))
                     ELSE IF WalkFails(tree, <<>>)
                     THEN /\ Raise("OSError")
                          /\ \E written \in PartialWalks(tree, <<>>) :
                               zips' = zip_addon_raises(zips, tree, meta.addon_id,
                                                        meta.version, written)
                     ELSE IF zip_addon_md5_raises(zips, meta.addon_id, meta.version)
                     THEN /\ Raise("OSError")
                          /\ zips' = zip_addon_raises(zips, tree, meta.addon_id,
                                                      meta.version, Walk(tree, <<>>))
                     ELSE /\ zips' = zip_addon(zips, tree, meta.addon_id, meta.version)
                          /\ IF is_repo_addon(meta.addon_id)
                             THEN /\ repo_zip' = Some(zip_path(meta.addon_id,
                                                                meta.version))
                                  /\ repo_version' = Some(meta.version)
                             ELSE UNCHANGED <<repo_zip, repo_version>>
                          /\ idx' = idx + 1
                          /\ pc' = IF idx = Len(addons) THEN "aggregate" ELSE "package"
                          /\ UNCHANGED status
    /\ UNCHANGED <<repo_dir, top, addons, log, runs, start, last, prev>>

\* main, line 145: build_addons_xml(addons, ZIPS_DIR)
Aggregate ==
    /\ pc = "aggregate"
    /\ LET addon_dirs == [k \in 1..Len(addons) |-> listing[addons[k]].tree]
       IN IF build_addons_xml_raises(addon_dirs)
          THEN /\ pc' = "failed"
               /\ status' = "RuntimeError"
               /\ UNCHANGED zips
          ELSE IF build_addons_xml_write_raises(zips)
          THEN /\ pc' = "failed"
               /\ status' = "OSError"
               /\ UNCHANGED zips
          ELSE IF build_addons_xml_md5_raises(zips)
          THEN /\ pc' = "failed"
               /\ status' = "OSError"
               /\ zips' = build_addons_xml_manifest(zips, addon_dirs)
          ELSE /\ zips' = build_addons_xml(zips, addon_dirs)
               /\ pc' = "publish"
               /\ UNCHANGED status
    /\ UNCHANGED <<repo_dir, listing, top, addons, idx, repo_zip, repo_version,
                   log, runs, start, last, prev>>

\* dest = SCRIPT_DIR / f"{repo_id}-{repo_version}.zip"
dest_path(version) == parts(zip_name(repo_id, version))

\* shutil.copy2(src, dst): a dst that is a directory takes the file under the
\* name of src
copy_dest(t, dst, src) == IF dst \in t.dirs THEN dst \o <<name_of(src)>> ELSE dst

\* line 150 raises: the destination cannot be opened
copy_to_root_raises(t, src, version) ==
    open_raises(t, copy_dest(t, dest_path(version), src))

\* line 150: shutil.copy2 of the repository zip to SCRIPT_DIR
copy_zip_to_root(t, zs, src, version) ==
    WriteTo(t, copy_dest(t, dest_path(version), src), zs.files[src])

\* line 153 raises after line 150 has copied the zip
copy_to_root_md5_raises(t, zs, src, version) ==
    LET t1 == copy_zip_to_root(t, zs, src, version)
    IN open_raises(t1, copy_dest(t1, md5_path(dest_path(version)), md5_path(src)))

\* lines 149-153: shutil.copy2 of the repository zip and of its md5
copy_to_root(t, zs, src, version) ==
    LET t1 == copy_zip_to_root(t, zs, src, version)
        md5_src == md5_path(src)
    IN WriteTo(t1, copy_dest(t1, md5_path(dest_path(version)), md5_src),
               zs.files[md5_src])

\* main, lines 147-158
Publish ==
    /\ pc = "publish"
    /\ IF repo_zip # None /\ ~falsy(repo_version)
       THEN IF copy_to_root_raises(top, repo_zip[1], repo_version[1])
            THEN /\ top' = top
                 /\ log' = log
                 /\ pc' = "failed"
                 /\ status' = "OSError"
                 /\ last' = last
            ELSE IF copy_to_root_md5_raises(top, zips, repo_zip[1], repo_version[1])
            THEN /\ top' = copy_zip_to_root(top, zips, repo_zip[1], repo_version[1])
                 /\ log' = log
                 /\ pc' = "failed"
                 /\ status' = "OSError"
                 /\ last' = last
            ELSE /\ top' = copy_to_root(top, zips, repo_zip[1], repo_version[1])
                 /\ log' = Append(log, "Copied to project root")
                 /\ pc' = "done"
                 /\ status' = "ok"
                 /\ last' = [valid |-> TRUE, listing |-> listing, zips |-> zips,
                             top |-> top']
       ELSE /\ top' = top
            /\ log' = Append(log, "Warning: repository.centulus not found")
            /\ pc' = "done"
            /\ status' = "ok"
            /\ last' = [valid |-> TRUE, listing |-> listing, zips |-> zips, top |-> top]
    /\ UNCHANGED <<repo_dir, listing, zips, addons, idx, repo_zip, repo_version,
                   runs, start, prev>>

\* between two runs somebody rewrites one file of an addon
Edit ==
    /\ pc \in {"done", "failed"}
    /\ runs < MaxRuns
    /\ \E i \in 1..Len(listing), e \in Edits :
        /\ listing[i].name = e.child
        /\ Entry(listing[i].tree, e.path).data # e.data
        /\ listing' = [listing EXCEPT ![i].tree = WriteFile(@, e.path, e.data)]
    /\ pc' = "idle"
    /\ UNCHANGED <<repo_dir, zips, top, addons, idx, repo_zip, repo_version,
                   status, log, runs, start, last, prev>>

Next == Discover \/ Package \/ Aggregate \/ Publish \/ Edit

Spec == Init /\ [][Next]_vars

\* ------------------------------------------------------------------ used by the properties
\* what the descriptor of the k-th discovered addon declares, read off its
\* root element
DiscTree(k) == listing[addons[k]].tree
DiscRoot(k) ==
    LET txt == Entry(DiscTree(k), <<N_addon_xml>>).data
    IN txt[CHOOSE i \in 1..Len(txt) : txt[i].t = "elem"]
DiscId(k) == DiscRoot(k).attrs.id
DiscVersion(k) == DiscRoot(k).attrs.version
DiscZipName(k) == DiscId(k) \o <<"-">> \o DiscVersion(k) \o <<".", "z", "i", "p">>
DiscZip(k) == <<DiscId(k), DiscZipName(k)>>
DiscMd5(k) == <<DiscId(k), DiscZipName(k) \o <<".", "m", "d", "5">>>>

IsArchive(p) ==
    LET name == p[Len(p)]
    IN Len(name) >= 4 /\ SubSeq(name, Len(name) - 3, Len(name)) = <<".", "z", "i", "p">>
Count(seq, kind) == Cardinality({i \in 1..Len(seq) : seq[i].t = kind})
RepoDiscovered == \E k \in 1..Len(addons) : DiscId(k) = repo_id
HasDescriptor(child) == \E e \in child.tree : e.path = <<N_addon_xml>>
NoAddonIn(l) ==
    \A i \in 1..Len(l) : ~(l[i].kind = "dir" /\ l[i].name # "zips" /\ HasDescriptor(l[i]))
Manifest == <<N_addons_xml>>
ManifestMd5 == <<N_addons_xml \o <<".", "m", "d", "5">>>>

\* ------------------------------------------------------------------ C1
\* C1: when the run aborts because a descriptor lacks id or version
\* (ValueError of parse_addon_meta), no archive and no checksum file has been
\* written during that run, wherever the offending addon stands in discovery
\* order.
C1_NoArchiveOnMetadataError ==
    (pc = "failed" /\ status = "ValueError: Missing id/version") => zips = start.zips

\* ------------------------------------------------------------------ C2
\* C2: when no child of REPO_DIR is an addon, the run aborts and the file
\* system is as it was when the run started: ZIPS_DIR is not created, no
\* archive, manifest or top-level copy is written; when discovery has listed
\* REPO_DIR, a directory, the run aborts with "No addons found".
C2_DiscoveryErrorWritesNothing ==
    (runs > 0 /\ pc # "idle" /\ NoAddonIn(start.listing)) =>
        /\ pc = "failed"
        /\ repo_dir = "dir" => status = "SystemExit: No addons found"
        /\ listing = start.listing
        /\ zips = start.zips
        /\ top = start.top

\* a run over a README and an output directory that holds a descriptor
C2_Witness ==
    /\ pc = "failed"
    /\ status = "SystemExit: No addons found"
    /\ Len(listing) = 2
    /\ \E i \in 1..Len(listing) : listing[i].name = "zips"
    /\ <<N_addon_xml>> \in DOMAIN zips.files

\* ------------------------------------------------------------------ C3
\* C3: no member of any archive is a file the exclusion filter rejects (a
\* denylisted name, a hidden file, a denylisted extension in any case), and no
\* member lies beneath a directory whose name is denylisted or hidden.
MemberAllowed(m) ==
    LET rel == m.arcname.rel
        name == rel[Len(rel)]
    IN /\ name \notin EXCLUDE_FILES
       /\ name[1] # "."
       /\ lower(suffix(name)) \notin EXCLUDE_EXTS
       /\ \A k \in 1..(Len(rel) - 1) : rel[k] \notin EXCLUDE_DIRS /\ rel[k][1] # "."

C3_NoExcludedMember ==
    \A p \in DOMAIN zips.files :
        IsArchive(p) => \A m \in zips.files[p].zip : MemberAllowed(m)

\* an archive of foo was built from a tree that holds excluded files and a
\* dangling link under .git, and holds the files of lib and data.db
C3_Witness ==
    \E p \in DOMAIN zips.files :
        /\ IsArchive(p)
        /\ p[1] = Id.foo
        /\ \E m \in zips.files[p].zip : m.arcname.rel = <<N_data_db, N_other_py>>
        /\ \E m \in zips.files[p].zip : m.arcname.rel = <<N_lib, N_other_py>>
        /\ \E i \in 1..Len(listing) :
            /\ listing[i].name = "foo"
            /\ Broken(<<N_git, N_lnk>>) \in listing[i].tree
            /\ \E e \in listing[i].tree : e.path = <<N_lib, N_pycache, N_main_py>>
        /\ pc = "done"

\* ------------------------------------------------------------------ C4
\* C4: when a run has completed, the md5 sibling of every archive it wrote
\* and of the manifest holds the digest of the bytes the artifact holds now.
C4_ChecksumRoundTrip ==
    pc = "done" =>
        /\ \A k \in 1..Len(addons) :
            /\ DiscZip(k) \in DOMAIN zips.files
            /\ DiscMd5(k) \in DOMAIN zips.files
            /\ zips.files[DiscMd5(k)] = [md5 |-> zips.files[DiscZip(k)]]
        /\ Manifest \in DOMAIN zips.files
        /\ ManifestMd5 \in DOMAIN zips.files
        /\ zips.files[ManifestMd5] = [md5 |-> zips.files[Manifest]]

\* a second run has overwritten an archive and the manifest of the first with
\* other bytes
C4_Witness ==
    /\ pc = "done"
    /\ prev # NoPrev
    /\ \E k \in 1..Len(addons) :
        /\ DiscZip(k) \in DOMAIN prev.zips.files
        /\ prev.zips.files[DiscZip(k)] # zips.files[DiscZip(k)]
    /\ prev.zips.files[Manifest] # zips.files[Manifest]

\* ------------------------------------------------------------------ C5
\* C5: the manifest is one XML declaration, then the root element addons
\* wrapping the descriptors of the discovered addons in discovery order: it
\* holds one declaration, and its root elements are those of the discovered
\* addons, in order.
C5_ManifestShape ==
    pc \in {"publish", "done"} =>
        LET m == zips.files[Manifest]
            elems == SelectSeq(m, LAMBDA tok : tok.t = "elem")
        IN /\ Count(m, "xmldecl") = 1
           /\ m[1].t = "xmldecl"
           /\ Count(m, "bom") = 0
           /\ Count(m, "tag") = 2
           /\ m[3] = Tag("addons")
           /\ m[Len(m) - 1] = Tag("/addons")
           /\ elems = [k \in 1..Len(addons) |-> DiscRoot(k)]

\* ------------------------------------------------------------------ C6
\* C6: a successful run leaves one archive and checksum pair per discovered
\* addon, at <id>/<id>-<version>.zip, holding the files of that addon: the
\* paths of the discovered addons are distinct.
C6_OnePairPerAddon ==
    pc = "done" =>
        /\ \A k \in 1..Len(addons) :
            /\ DiscZip(k) \in DOMAIN zips.files
            /\ DiscMd5(k) \in DOMAIN zips.files
            /\ \A m \in zips.files[DiscZip(k)].zip :
                /\ m.arcname.top = <<DiscId(k)>>
                /\ File(m.arcname.rel, m.data) \in DiscTree(k)
            /\ \E m \in zips.files[DiscZip(k)].zip : m.arcname.rel = <<N_addon_xml>>
        /\ Cardinality({DiscZip(k) : k \in 1..Len(addons)}) = Len(addons)

\* ------------------------------------------------------------------ C7
\* C7: at done, the project root holds the zip and the md5 of every
\* discovered repository addon, equal to those under zips/; the root is not
\* written while addons are packaged and aggregated, and it is written only
\* when the repository addon was discovered, every addon was packaged and
\* the manifest and its md5 were written.
C7_PublishedCopy ==
    /\ pc = "done" =>
        \A k \in 1..Len(addons) :
            DiscId(k) = repo_id =>
                /\ <<DiscZip(k)[2]>> \in DOMAIN top.files
                /\ <<DiscMd5(k)[2]>> \in DOMAIN top.files
                /\ top.files[<<DiscZip(k)[2]>>] = zips.files[DiscZip(k)]
                /\ top.files[<<DiscMd5(k)[2]>>] = zips.files[DiscMd5(k)]
    /\ pc \in {"package", "aggregate", "publish"} => top = start.top
    /\ (runs > 0 /\ top # start.top) =>
        /\ RepoDiscovered
        /\ idx = Len(addons) + 1
        /\ Manifest \in DOMAIN zips.files
        /\ ManifestMd5 \in DOMAIN zips.files
        /\ zips.files[ManifestMd5] = [md5 |-> zips.files[Manifest]]

\* ------------------------------------------------------------------ C8
\* A run without repository addon whose packaging and aggregation have
\* succeeded is not stuck before its last step; at done it has ended with
\* success, logged the warning as its only line and the project root is as it
\* was when the run started.
C8_DoneWithoutRepo ==
    /\ (pc = "publish" /\ ~RepoDiscovered) => ENABLED Publish
    /\ (pc = "done" /\ ~RepoDiscovered) =>
        /\ status = "ok"
        /\ log = <<"Warning: repository.centulus not found">>
        /\ top = start.top

\* The last step of such a run ends it with success and writes no file.
C8_LastStepWithoutRepo ==
    (pc = "publish" /\ ~RepoDiscovered) =>
        /\ pc' = "done"
        /\ status' = "ok"
        /\ top' = top
        /\ zips' = zips

\* C8: without repository addon the run still reaches done with success, a
\* warning and no top-level copy (the two formulas above, in every state and
\* at every step).
C8_NoRepoStillDone == []C8_DoneWithoutRepo /\ [][C8_LastStepWithoutRepo]_vars

C8_Witness ==
    /\ pc = "done"
    /\ ~RepoDiscovered
    /\ Len(addons) = 2
    /\ status = "ok"

\* ------------------------------------------------------------------ C9
\* C9: a run on the input tree the previous successful run left behind
\* leaves the same archives, manifest, checksums and top-level copy, and the
\* same input tree.
C9_Idempotent ==
    (pc = "done" /\ prev # NoPrev /\ start.listing = prev.listing) =>
        /\ zips = prev.zips
        /\ top = prev.top
        /\ listing = prev.listing

\* the second of two runs on a tree in which the first run created icon.png
C9_Witness ==
    /\ pc = "done"
    /\ prev # NoPrev
    /\ start.listing = prev.listing
    /\ Len(addons) = 2
    /\ \E k \in 1..Len(addons) :
        /\ DiscId(k) = repo_id
        /\ File(<<N_icon_png>>, PNG_1PX) \in DiscTree(k)
        /\ \E m \in zips.files[DiscZip(k)].zip : m.arcname.rel = <<N_icon_png>>

\* ------------------------------------------------------------------ C10
\* C10: once zip_addon has returned for an addon, the directory
\* ZIPS_DIR/<id> holds the new archive and its checksum and nothing else.
C10_OutDirHoldsOnlyNew ==
    pc \in {"package", "aggregate", "publish", "done"} =>
        \A k \in 1..(idx - 1) :
            {p \in DOMAIN zips.files : p[1] = DiscId(k)} = {DiscZip(k), DiscMd5(k)}

====
